---- MODULE Spec2Model ----
(***************************************************************************)
(* A model of the CHIP-8 interpreter of chip-8/src/lib.rs: the Chip8       *)
(* struct (memory, program counter, stack, registers, display, keys,       *)
(* timers) and its public operations init, load_rom, cycle, tick_timers    *)
(* and set_pressed_keys.  A Rust panic ends the run: the machine keeps     *)
(* the field values it had when the panic was raised.                      *)
(***************************************************************************)
EXTENDS Integers, Sequences, FiniteSets, TLC

VARIABLES
    data,             \* Memory.data: [u8; 4096]
    pc,               \* Memory.pc: u16
    stack,            \* Stack.stack: [u16; 16]
    sp,               \* Stack.sp: u16
    pixels,           \* Screen.pixels: [bool; 2048]
    v_registers,      \* Chip8.v_registers: [u8; 16]
    i_register,       \* Chip8.i_register: u16
    pressed_keys,     \* Chip8.pressed_keys: [bool; 16]
    delay_timer,      \* Chip8.delay_timer: u8
    sound_timer,      \* Chip8.sound_timer: u8
    status,           \* "running", or "panicked" once an operation has panicked
    panic,            \* the message of the panic that ended the run, "" if none
    returned,         \* what the last operation handed back to its caller
    opcode,           \* the opcode fetched by the last cycle, -1 before the first
    frames,           \* history: the addresses after the CALLs not yet returned from
    phase,            \* the driver's position: "new", "inited", "loaded"
    rom,              \* the bytes the program source supplies to load_rom
    overflow_checks,  \* build profile: TRUE = integer overflow panics (debug)
    delay_set,        \* history: the value the last Fx15 stored, -1 before the first
    ticks             \* history: the tick_timers calls since that Fx15, up to 255

vars == <<data, pc, stack, sp, pixels, v_registers, i_register, pressed_keys,
          delay_timer, sound_timer, status, panic, returned, opcode, frames, phase,
          rom, overflow_checks, delay_set, ticks>>

----------------------------------------------------------------------------
(* Program constants                                                       *)

SCREEN_WIDTH == 64
SCREEN_HEIGHT == 32
NUM_KEYS == 16
MEMORY_SIZE == 4096
NUM_REGISTERS == 16
START_ADDRESS == 512
STACK_SIZE == 16
FONTSET_SIZE == 80

FONTSET ==
    << 240, 144, 144, 144, 240,
        32,  96,  32,  32, 112,
       240,  16, 240, 128, 240,
       240,  16, 240,  16, 240,
       144, 144, 240,  16,  16,
       240, 128, 240,  16, 240,
       240, 128, 240, 144, 240,
       240,  16,  32,  64,  64,
       240, 144, 240, 144, 240,
       240, 144, 240,  16, 240,
       240, 144, 240, 144, 144,
       224, 144, 224, 144, 224,
       240, 128, 128, 128, 240,
       224, 144, 144, 144, 224,
       240, 128, 240, 128, 240,
       240, 128, 240, 128, 128 >>

U8 == 256
U16 == 65536

----------------------------------------------------------------------------
(* The machine as one value, so that every operation is a function of it   *)

Machine ==
    [ data |-> data, pc |-> pc, stack |-> stack, sp |-> sp, pixels |-> pixels,
      v_registers |-> v_registers, i_register |-> i_register,
      pressed_keys |-> pressed_keys, delay_timer |-> delay_timer,
      sound_timer |-> sound_timer, status |-> status, panic |-> panic ]

\* A panic unwinds out of the operation: the fields keep their current values.
Panic(m, msg) == [m EXCEPT !.status = "panicked", !.panic = msg]

IndexOutOfBounds == "index out of bounds"
AddOverflow == "attempt to add with overflow"
SubOverflow == "attempt to subtract with overflow"
RomTooLarge == "ROM too large to fit in memory"

\* Chip8::default()
NewMachine ==
    [ data |-> [a \in 0..(MEMORY_SIZE - 1) |-> 0],
      pc |-> START_ADDRESS,
      stack |-> [s \in 0..(STACK_SIZE - 1) |-> 0],
      sp |-> 0,
      pixels |-> [p \in 0..(SCREEN_WIDTH * SCREEN_HEIGHT - 1) |-> FALSE],
      v_registers |-> [r \in 0..(NUM_REGISTERS - 1) |-> 0],
      i_register |-> 0,
      pressed_keys |-> [k \in 0..(NUM_KEYS - 1) |-> FALSE],
      delay_timer |-> 0,
      sound_timer |-> 0,
      status |-> "running",
      panic |-> "" ]

----------------------------------------------------------------------------
(* Memory                                                                  *)

\* Memory::init clearing the memory before it writes the glyphs
MemoryInitClearing(m) ==
    [m EXCEPT !.data = [a \in 0..(FONTSET_SIZE - 1) |-> FONTSET[a + 1]]
                          @@ NewMachine.data,
              !.pc = START_ADDRESS]

\* Memory::init (f @@ g is g overwritten by f where f is defined)
MemoryInit(m) ==
    [m EXCEPT !.data = [a \in 0..(FONTSET_SIZE - 1) |-> FONTSET[a + 1]] @@ m.data,
              !.pc = START_ADDRESS]

\* Memory::load_rom rejecting a program that ends exactly at the last cell
MemoryLoadRomOffByOne(m, bytes) ==
    LET start == START_ADDRESS
        end == start + Len(bytes)
    IN  IF end >= MEMORY_SIZE
        THEN Panic(m, RomTooLarge)
        ELSE [m EXCEPT !.data =
                  [a \in start..(end - 1) |-> bytes[a - start + 1]] @@ m.data]

\* Memory::load_rom
MemoryLoadRom(m, bytes) ==
    LET start == START_ADDRESS
        end == start + Len(bytes)
    IN  IF end > MEMORY_SIZE
        THEN Panic(m, RomTooLarge)
        ELSE [m EXCEPT !.data =
                  [a \in start..(end - 1) |-> bytes[a - start + 1]] @@ m.data]

\* Memory::next advancing by two instructions instead of one
MemoryNextTwice(m) == [m EXCEPT !.pc = (m.pc + 4) % U16]

\* Memory::next: self.pc += 2 on a u16
MemoryNext(m) ==
    IF m.pc + 2 >= U16
    THEN IF overflow_checks THEN Panic(m, AddOverflow)
         ELSE [m EXCEPT !.pc = (m.pc + 2) % U16]
    ELSE [m EXCEPT !.pc = m.pc + 2]

\* Memory::prev leaving the program counter past the instruction
MemoryPrevStays(m) == m

\* Memory::prev: self.pc -= 2 on a u16
MemoryPrev(m) ==
    IF m.pc < 2
    THEN IF overflow_checks THEN Panic(m, SubOverflow)
         ELSE [m EXCEPT !.pc = (m.pc - 2) % U16]
    ELSE [m EXCEPT !.pc = m.pc - 2]

\* Memory::fetch_opcode reading the low byte first
FetchOpcodeLowFirst(m) ==
    IF m.pc + 1 >= MEMORY_SIZE
    THEN [m |-> Panic(m, IndexOutOfBounds), opcode |-> -1]
    ELSE [m |-> MemoryNext(m),
          opcode |-> m.data[m.pc + 1] * 256 + m.data[m.pc]]

\* Memory::fetch_opcode: the machine after the fetch and the opcode read
\* (-1 when an index panicked before the opcode was formed).
FetchOpcode(m) ==
    IF m.pc >= MEMORY_SIZE
    THEN [m |-> Panic(m, IndexOutOfBounds), opcode |-> -1]
    ELSE IF m.pc + 1 >= U16 /\ overflow_checks
    THEN [m |-> Panic(m, AddOverflow), opcode |-> -1]
    ELSE IF (m.pc + 1) % U16 >= MEMORY_SIZE
    THEN [m |-> Panic(m, IndexOutOfBounds), opcode |-> -1]
    ELSE [m |-> MemoryNext(m),
          opcode |-> m.data[m.pc] * 256 + m.data[(m.pc + 1) % U16]]

\* Memory::get_bytes: the slice data[start .. start + length], or "panic"
\* when the range end exceeds the buffer.
GetBytesPanics(m, start, length) == start + length > MEMORY_SIZE

GetBytes(m, start, length) == [r \in 0..(length - 1) |-> m.data[start + r]]

----------------------------------------------------------------------------
(* Stack                                                                   *)

\* Stack::push
StackPush(m, value) ==
    IF m.sp >= STACK_SIZE
    THEN Panic(m, IndexOutOfBounds)
    ELSE LET stored == [m EXCEPT !.stack[m.sp] = value]
         IN  IF stored.sp + 1 >= U16
             THEN IF overflow_checks THEN Panic(stored, AddOverflow)
                  ELSE [stored EXCEPT !.sp = (stored.sp + 1) % U16]
             ELSE [stored EXCEPT !.sp = stored.sp + 1]

\* Stack::pop reading the slot before it decrements the pointer
StackPopReadFirst(m) ==
    IF m.sp >= STACK_SIZE \/ m.sp = 0
    THEN [m |-> Panic(m, IndexOutOfBounds), value |-> -1]
    ELSE [m |-> [m EXCEPT !.sp = m.sp - 1], value |-> m.stack[m.sp]]

\* Stack::pop: the machine after the pop and the value popped (-1 on panic)
StackPop(m) ==
    IF m.sp = 0 /\ overflow_checks
    THEN [m |-> Panic(m, SubOverflow), value |-> -1]
    ELSE LET dec == [m EXCEPT !.sp = (m.sp - 1) % U16]
         IN  IF dec.sp >= STACK_SIZE
             THEN [m |-> Panic(dec, IndexOutOfBounds), value |-> -1]
             ELSE [m |-> dec, value |-> dec.stack[dec.sp]]

----------------------------------------------------------------------------
(* Screen                                                                  *)

\* Screen::clear
ScreenClear(m) ==
    [m EXCEPT !.pixels = [p \in 0..(SCREEN_WIDTH * SCREEN_HEIGHT - 1) |-> FALSE]]

\* (sprite_row_byte >> (7 - col)) & 0x1
SpriteBit(byte, col) == (byte \div (2 ^ (7 - col))) % 2

\* the loop body carrying a pixel past an edge over to the opposite edge
DrawPixelWrapped(acc, x, y, row, col, byte) ==
    LET screen_x == (x + col) % SCREEN_WIDTH
        screen_y == (y + row) % SCREEN_HEIGHT
        index == screen_y * SCREEN_WIDTH + screen_x
    IN  IF SpriteBit(byte, col) = 1
        THEN [pixels |-> [acc.pixels EXCEPT ![index] = ~acc.pixels[index]],
              collision |-> acc.collision \/ acc.pixels[index]]
        ELSE acc

\* the loop body setting a pixel under a 1 bit instead of toggling it
DrawPixelSet(acc, x, y, row, col, byte) ==
    LET screen_x == x + col
        screen_y == y + row
        index == screen_y * SCREEN_WIDTH + screen_x
    IN  IF screen_x >= SCREEN_WIDTH \/ screen_y >= SCREEN_HEIGHT
        THEN acc
        ELSE IF SpriteBit(byte, col) = 1
        THEN [pixels |-> [acc.pixels EXCEPT ![index] = TRUE],
              collision |-> acc.collision \/ acc.pixels[index]]
        ELSE acc

\* Screen::draw_sprite, the loop body for one (row, col): the pair of the
\* pixel grid and the collision flag after it.
DrawPixel(acc, x, y, row, col, byte) ==
    LET screen_x == x + col
        screen_y == y + row
        index == screen_y * SCREEN_WIDTH + screen_x
    IN  IF screen_x >= SCREEN_WIDTH \/ screen_y >= SCREEN_HEIGHT
        THEN acc
        ELSE IF SpriteBit(byte, col) = 1
        THEN [pixels |-> [acc.pixels EXCEPT ![index] = ~acc.pixels[index]],
              collision |-> acc.collision \/ acc.pixels[index]]
        ELSE acc

RECURSIVE DrawCols(_, _, _, _, _, _)
DrawCols(acc, x, y, row, col, byte) ==
    IF col >= 8 THEN acc
    ELSE DrawCols(DrawPixel(acc, x, y, row, col, byte), x, y, row, col + 1, byte)

\* (the test on acc.collision never holds: it makes the evaluator finish
\* one row before it starts the next, instead of nesting all of them)
RECURSIVE DrawRows(_, _, _, _, _, _)
DrawRows(acc, x, y, row, height, sprite) ==
    IF row >= height \/ acc.collision \notin BOOLEAN THEN acc
    ELSE DrawRows(DrawCols(acc, x, y, row, 0, sprite[row]), x, y, row + 1,
                  height, sprite)

\* Screen::draw_sprite: [pixels, collision]
DrawSprite(px, x, y, height, sprite) ==
    DrawRows([pixels |-> px, collision |-> FALSE], x, y, 0, height, sprite)

----------------------------------------------------------------------------
(* u8 arithmetic                                                           *)

RECURSIVE BitAnd(_, _, _)
BitAnd(a, b, n) ==
    IF n = 0 THEN 0
    ELSE (IF a % 2 = 1 /\ b % 2 = 1 THEN 1 ELSE 0)
         + 2 * BitAnd(a \div 2, b \div 2, n - 1)

RECURSIVE BitOr(_, _, _)
BitOr(a, b, n) ==
    IF n = 0 THEN 0
    ELSE (IF a % 2 = 1 \/ b % 2 = 1 THEN 1 ELSE 0)
         + 2 * BitOr(a \div 2, b \div 2, n - 1)

RECURSIVE BitXor(_, _, _)
BitXor(a, b, n) ==
    IF n = 0 THEN 0
    ELSE (IF a % 2 # b % 2 THEN 1 ELSE 0)
         + 2 * BitXor(a \div 2, b \div 2, n - 1)

\* u8::overflowing_add: (result, carry)
OverflowingAdd(a, b) == [result |-> (a + b) % U8, flag |-> a + b >= U8]

\* u8::overflowing_sub: (result, borrow)
OverflowingSub(a, b) == [result |-> (a - b) % U8, flag |-> a < b]

\* bool as u8
BoolAsU8(b) == IF b THEN 1 ELSE 0

----------------------------------------------------------------------------
(* Chip8::execute                                                          *)

Digit1(op) == op \div 4096
Digit2(op) == (op \div 256) % 16
Digit3(op) == (op \div 16) % 16
Digit4(op) == op % 16
LowByte(op) == op % 256
Nnn(op) == op % 4096

\* The arm of the match in Chip8::execute that the opcode selects.
Decode(op) ==
    LET d1 == Digit1(op)
        d2 == Digit2(op)
        d3 == Digit3(op)
        d4 == Digit4(op)
    IN  CASE d1 = 0 /\ d2 = 0 /\ d3 = 14 /\ d4 = 0 -> "00E0"
          [] d1 = 0 /\ d2 = 0 /\ d3 = 14 /\ d4 = 14 -> "00EE"
          [] d1 = 1 -> "1nnn"
          [] d1 = 2 -> "2nnn"
          [] d1 = 3 -> "3xkk"
          [] d1 = 4 -> "4xkk"
          [] d1 = 5 /\ d4 = 0 -> "5xy0"
          [] d1 = 6 -> "6xkk"
          [] d1 = 7 -> "7xkk"
          [] d1 = 8 /\ d4 = 0 -> "8xy0"
          [] d1 = 8 /\ d4 = 1 -> "8xy1"
          [] d1 = 8 /\ d4 = 2 -> "8xy2"
          [] d1 = 8 /\ d4 = 3 -> "8xy3"
          [] d1 = 8 /\ d4 = 4 -> "8xy4"
          [] d1 = 8 /\ d4 = 5 -> "8xy5"
          [] d1 = 8 /\ d4 = 6 -> "8xy6"
          [] d1 = 8 /\ d4 = 7 -> "8xy7"
          [] d1 = 8 /\ d4 = 14 -> "8xyE"
          [] d1 = 9 /\ d4 = 0 -> "9xy0"
          [] d1 = 10 -> "Annn"
          [] d1 = 11 -> "Bnnn"
          [] d1 = 12 -> "Cxkk"
          [] d1 = 13 -> "Dxyn"
          [] d1 = 14 /\ d3 = 9 /\ d4 = 14 -> "Ex9E"
          [] d1 = 14 /\ d3 = 10 /\ d4 = 1 -> "ExA1"
          [] d1 = 15 /\ d3 = 0 /\ d4 = 7 -> "Fx07"
          [] d1 = 15 /\ d3 = 0 /\ d4 = 10 -> "Fx0A"
          [] d1 = 15 /\ d3 = 1 /\ d4 = 5 -> "Fx15"
          [] d1 = 15 /\ d3 = 1 /\ d4 = 8 -> "Fx18"
          [] d1 = 15 /\ d3 = 1 /\ d4 = 14 -> "Fx1E"
          [] d1 = 15 /\ d3 = 2 /\ d4 = 9 -> "Fx29"
          [] d1 = 15 /\ d3 = 3 /\ d4 = 3 -> "Fx33"
          [] d1 = 15 /\ d3 = 5 /\ d4 = 5 -> "Fx55"
          [] d1 = 15 /\ d3 = 6 /\ d4 = 5 -> "Fx65"
          [] OTHER -> "unimplemented"

\* (0, 0, 0xE, 0xE): return from subroutine
ExecRet(m) ==
    LET popped == StackPop(m)
    IN  IF popped.m.status = "panicked" THEN popped.m
        ELSE [popped.m EXCEPT !.pc = popped.value]

\* (1, _, _, _): jump to address NNN
ExecJump(m, op) == [m EXCEPT !.pc = Nnn(op)]

\* (2, _, _, _): call subroutine at NNN
ExecCall(m, op) ==
    LET pushed == StackPush(m, m.pc)
    IN  IF pushed.status = "panicked" THEN pushed
        ELSE [pushed EXCEPT !.pc = Nnn(op)]

\* the skip instructions: self.memory.next() when the condition holds
ExecSkipIf(m, cond) == IF cond THEN MemoryNext(m) ELSE m

\* 8xy4 storing the carry before the sum, as the shifts store their flag
ExecAddFlagFirst(m, x, y) ==
    LET r == OverflowingAdd(m.v_registers[x], m.v_registers[y])
        m1 == [m EXCEPT !.v_registers[15] = BoolAsU8(r.flag)]
    IN  [m1 EXCEPT !.v_registers[x] = r.result]

\* (8, _, _, 4): Vx = Vx + Vy, VF = carry
ExecAdd(m, x, y) ==
    LET r == OverflowingAdd(m.v_registers[x], m.v_registers[y])
        m1 == [m EXCEPT !.v_registers[x] = r.result]
    IN  [m1 EXCEPT !.v_registers[15] = BoolAsU8(r.flag)]

\* 8xy5 with VF = 1 only when Vx > Vy
ExecSubStrict(m, x, y) ==
    LET r == OverflowingSub(m.v_registers[x], m.v_registers[y])
        m1 == [m EXCEPT !.v_registers[x] = r.result]
    IN  [m1 EXCEPT !.v_registers[15] =
                       BoolAsU8(m.v_registers[x] > m.v_registers[y])]

\* (8, _, _, 5): Vx = Vx - Vy, VF = NOT borrow
ExecSub(m, x, y) ==
    LET r == OverflowingSub(m.v_registers[x], m.v_registers[y])
        m1 == [m EXCEPT !.v_registers[x] = r.result]
    IN  [m1 EXCEPT !.v_registers[15] = BoolAsU8(~r.flag)]

\* (8, _, _, 7): Vx = Vy - Vx, VF = NOT borrow
ExecSubn(m, x, y) ==
    LET r == OverflowingSub(m.v_registers[y], m.v_registers[x])
        m1 == [m EXCEPT !.v_registers[x] = r.result]
    IN  [m1 EXCEPT !.v_registers[15] = BoolAsU8(~r.flag)]

\* (8, _, _, 6): VF = Vx & 1, then Vx >>= 1
ExecShr(m, x) ==
    LET m1 == [m EXCEPT !.v_registers[15] = m.v_registers[x] % 2]
    IN  [m1 EXCEPT !.v_registers[x] = m1.v_registers[x] \div 2]

\* (8, _, _, 0xE): VF = Vx >> 7, then Vx <<= 1
ExecShl(m, x) ==
    LET m1 == [m EXCEPT !.v_registers[15] = m.v_registers[x] \div 128]
    IN  [m1 EXCEPT !.v_registers[x] = (m1.v_registers[x] * 2) % U8]

\* (0xB, _, _, _): jump to NNN + V0
ExecJumpV0(m, op) == [m EXCEPT !.pc = Nnn(op) + m.v_registers[0]]

\* (0xD, _, _, _): draw the sprite of `height` rows at I at (Vx, Vy)
ExecDraw(m, x, y, height) ==
    LET x_coor == m.v_registers[x] % SCREEN_WIDTH
        y_coor == m.v_registers[y] % SCREEN_HEIGHT
    IN  IF GetBytesPanics(m, m.i_register, height)
        THEN Panic(m, IndexOutOfBounds)
        ELSE LET sprite == GetBytes(m, m.i_register, height)
                 drawn == DrawSprite(m.pixels, x_coor, y_coor, height, sprite)
             IN  [m EXCEPT !.pixels = drawn.pixels,
                           !.v_registers[15] = BoolAsU8(drawn.collision)]

\* self.pressed_keys[self.v_registers[x] as usize], then a skip
ExecSkipKey(m, x, wanted) ==
    IF m.v_registers[x] >= NUM_KEYS
    THEN Panic(m, IndexOutOfBounds)
    ELSE ExecSkipIf(m, m.pressed_keys[m.v_registers[x]] = wanted)

\* Fx0A storing the highest pressed key instead of the first
ExecWaitKeyLast(m, x) ==
    LET pressed == {k \in 0..(NUM_KEYS - 1) : m.pressed_keys[k]}
    IN  IF pressed # {}
        THEN [m EXCEPT !.v_registers[x] =
                  CHOOSE k \in pressed : \A j \in pressed : k >= j]
        ELSE MemoryPrev(m)

\* (0xF, _, 0, 0xA): wait for a key press
ExecWaitKey(m, x) ==
    LET pressed == {k \in 0..(NUM_KEYS - 1) : m.pressed_keys[k]}
    IN  IF pressed # {}
        THEN [m EXCEPT !.v_registers[x] =
                  CHOOSE k \in pressed : \A j \in pressed : k <= j]
        ELSE MemoryPrev(m)

\* an indexed store that drops a write past the end instead of failing
StoreByteClamped(m, addr, value) ==
    IF addr >= MEMORY_SIZE THEN m ELSE [m EXCEPT !.data[addr] = value]

\* one indexed store self.memory.data[addr] = value
StoreByte(m, addr, value) ==
    IF addr >= MEMORY_SIZE THEN Panic(m, IndexOutOfBounds)
    ELSE [m EXCEPT !.data[addr] = value]

\* (0xF, _, 3, 3): BCD of Vx at I, I+1, I+2
ExecBcd(m, x) ==
    LET value == m.v_registers[x]
        m1 == StoreByte(m, m.i_register, value \div 100)
        m2 == IF m1.status = "panicked" THEN m1
              ELSE StoreByte(m1, m.i_register + 1, (value \div 10) % 10)
    IN  IF m2.status = "panicked" THEN m2
        ELSE StoreByte(m2, m.i_register + 2, value % 10)

\* Fx55 leaving I past the block it stored, I = I + x + 1
RECURSIVE ExecStoreRegsMovingI(_, _, _)
ExecStoreRegsMovingI(m, offset, x) ==
    IF m.status = "panicked" THEN m
    ELSE IF offset > x THEN [m EXCEPT !.i_register = m.i_register + x + 1]
    ELSE ExecStoreRegsMovingI(
             StoreByte(m, m.i_register + offset, m.v_registers[offset]),
             offset + 1, x)

\* (0xF, _, 5, 5): for offset in 0..=x { data[I + offset] = V[offset] }
RECURSIVE ExecStoreRegs(_, _, _)
ExecStoreRegs(m, offset, x) ==
    IF offset > x \/ m.status = "panicked" THEN m
    ELSE ExecStoreRegs(StoreByte(m, m.i_register + offset, m.v_registers[offset]),
                       offset + 1, x)

\* (0xF, _, 6, 5): for offset in 0..=x { V[offset] = data[I + offset] }
RECURSIVE ExecLoadRegs(_, _, _)
ExecLoadRegs(m, offset, x) ==
    IF offset > x \/ m.status = "panicked" THEN m
    ELSE ExecLoadRegs(
             IF m.i_register + offset >= MEMORY_SIZE
             THEN Panic(m, IndexOutOfBounds)
             ELSE [m EXCEPT !.v_registers[offset] = m.data[m.i_register + offset]],
             offset + 1, x)

\* Chip8::execute; rnd is the byte rand::random::<u8>() yields
Execute(m, op, rnd) ==
    LET x == Digit2(op)
        y == Digit3(op)
        nn == LowByte(op)
        arm == Decode(op)
        vx == m.v_registers[x]
        vy == m.v_registers[y]
    IN  CASE arm = "00E0" -> ScreenClear(m)
          [] arm = "00EE" -> ExecRet(m)
          [] arm = "1nnn" -> ExecJump(m, op)
          [] arm = "2nnn" -> ExecCall(m, op)
          [] arm = "3xkk" -> ExecSkipIf(m, vx = nn)
          [] arm = "4xkk" -> ExecSkipIf(m, vx # nn)
          [] arm = "5xy0" -> ExecSkipIf(m, vx = vy)
          [] arm = "6xkk" -> [m EXCEPT !.v_registers[x] = nn]
          [] arm = "7xkk" -> [m EXCEPT !.v_registers[x] = (vx + nn) % U8]
          [] arm = "8xy0" -> [m EXCEPT !.v_registers[x] = vy]
          [] arm = "8xy1" -> [m EXCEPT !.v_registers[x] = BitOr(vx, vy, 8)]
          [] arm = "8xy2" -> [m EXCEPT !.v_registers[x] = BitAnd(vx, vy, 8)]
          [] arm = "8xy3" -> [m EXCEPT !.v_registers[x] = BitXor(vx, vy, 8)]
          [] arm = "8xy4" -> ExecAdd(m, x, y)
          [] arm = "8xy5" -> ExecSub(m, x, y)
          [] arm = "8xy6" -> ExecShr(m, x)
          [] arm = "8xy7" -> ExecSubn(m, x, y)
          [] arm = "8xyE" -> ExecShl(m, x)
          [] arm = "9xy0" -> ExecSkipIf(m, vx # vy)
          [] arm = "Annn" -> [m EXCEPT !.i_register = Nnn(op)]
          [] arm = "Bnnn" -> ExecJumpV0(m, op)
          [] arm = "Cxkk" -> [m EXCEPT !.v_registers[x] = BitAnd(rnd, nn, 8)]
          [] arm = "Dxyn" -> ExecDraw(m, x, y, Digit4(op))
          [] arm = "Ex9E" -> ExecSkipKey(m, x, TRUE)
          [] arm = "ExA1" -> ExecSkipKey(m, x, FALSE)
          [] arm = "Fx07" -> [m EXCEPT !.v_registers[x] = m.delay_timer]
          [] arm = "Fx0A" -> ExecWaitKey(m, x)
          [] arm = "Fx15" -> [m EXCEPT !.delay_timer = vx]
          [] arm = "Fx18" -> [m EXCEPT !.sound_timer = vx]
          [] arm = "Fx1E" -> [m EXCEPT !.i_register = (m.i_register + vx) % U16]
          [] arm = "Fx29" -> [m EXCEPT !.i_register = vx * 5]
          [] arm = "Fx33" -> ExecBcd(m, x)
          [] arm = "Fx55" -> ExecStoreRegs(m, 0, x)
          [] arm = "Fx65" -> ExecLoadRegs(m, 0, x)
          [] OTHER -> m

\* Chip8::cycle counting the delay timer down once per instruction
CycleTicking(m, rnd) ==
    LET f == FetchOpcode(m)
        after == Execute(f.m, f.opcode, rnd)
    IN  IF f.m.status = "panicked" THEN f.m
        ELSE IF after.delay_timer > 0
        THEN [after EXCEPT !.delay_timer = after.delay_timer - 1]
        ELSE after

\* Chip8::cycle: fetch, then execute unless the fetch panicked
CycleFn(m, rnd) ==
    LET f == FetchOpcode(m)
    IN  IF f.m.status = "panicked" THEN f.m ELSE Execute(f.m, f.opcode, rnd)

\* tick_timers decrementing without the tests for 0
TickTimersWrapping(m) ==
    [m EXCEPT !.delay_timer = (m.delay_timer - 1) % U8,
              !.sound_timer = (m.sound_timer - 1) % U8]

\* Chip8::tick_timers
TickTimersFn(m) ==
    LET m1 == IF m.delay_timer > 0
              THEN [m EXCEPT !.delay_timer = m.delay_timer - 1] ELSE m
    IN  IF m1.sound_timer > 0
        THEN [m1 EXCEPT !.sound_timer = m1.sound_timer - 1] ELSE m1

----------------------------------------------------------------------------
(* The inputs the driver supplies                                          *)

\* the two bytes of an opcode, high byte first
Instr(op) == <<op \div 256, op % 256>>

RECURSIVE Prog(_)
Prog(ops) == IF ops = <<>> THEN <<>> ELSE Instr(Head(ops)) \o Prog(Tail(ops))

\* opcode from its four hex digits
Op(d1, d2, d3, d4) == d1 * 4096 + d2 * 256 + d3 * 16 + d4

\* 1nnn to its own address: a program that has finished spins here
Halt(addr) == 4096 + addr

KeySnapshot(down) == [k \in 0..(NUM_KEYS - 1) |-> k \in down]

KeySnapshots == {KeySnapshot({}), KeySnapshot({3, 7})}

RandBytes == {0, 165, 255}

BuildProfiles == BOOLEAN

----------------------------------------------------------------------------
(* The operations of Chip8, as actions                                     *)

Apply(m) ==
    /\ data' = m.data
    /\ pc' = m.pc
    /\ stack' = m.stack
    /\ sp' = m.sp
    /\ pixels' = m.pixels
    /\ v_registers' = m.v_registers
    /\ i_register' = m.i_register
    /\ pressed_keys' = m.pressed_keys
    /\ delay_timer' = m.delay_timer
    /\ sound_timer' = m.sound_timer
    /\ status' = m.status
    /\ panic' = m.panic

\* every operation of the crate returns (); a panic returns nothing
Returned(m) == IF m.status = "panicked" THEN "panic" ELSE "()"

\* Chip8::init
init ==
    /\ status = "running"
    /\ phase = "new"
    /\ Apply(MemoryInit(Machine))
    /\ returned' = Returned(MemoryInit(Machine))
    /\ phase' = "inited"
    /\ UNCHANGED <<opcode, frames, rom, overflow_checks, delay_set, ticks>>

\* Chip8::load_rom, with the bytes of the program source
load_rom ==
    /\ status = "running"
    /\ phase = "inited"
    /\ Apply(MemoryLoadRom(Machine, rom))
    /\ returned' = Returned(MemoryLoadRom(Machine, rom))
    /\ phase' = "loaded"
    /\ UNCHANGED <<opcode, frames, rom, overflow_checks, delay_set, ticks>>

\* the bytes rand::random can yield in a cycle: only Cxkk draws one
RandomFor(m) ==
    LET f == FetchOpcode(m)
    IN  IF f.opcode >= 0 /\ Decode(f.opcode) = "Cxkk" THEN RandBytes ELSE {0}

\* the history of open calls after a cycle that fetched `op` at `at` and
\* left the machine in `after`
FramesAfter(fr, at, op, after) ==
    IF op < 0 \/ after.status = "panicked" THEN fr
    ELSE IF Decode(op) = "2nnn" THEN Append(fr, at + 2)
    ELSE IF Decode(op) = "00EE" THEN SubSeq(fr, 1, Len(fr) - 1)
    ELSE fr

\* whether a cycle on m executes Fx15
SetsDelay(m) ==
    LET f == FetchOpcode(m)
    IN  f.opcode >= 0 /\ Decode(f.opcode) = "Fx15"

\* Chip8::cycle
cycle ==
    /\ status = "running"
    /\ phase = "loaded"
    /\ \E rnd \in RandomFor(Machine) :
          LET after == CycleFn(Machine, rnd)
          IN  /\ Apply(after)
              /\ returned' = Returned(after)
              /\ opcode' = FetchOpcode(Machine).opcode
              /\ frames' = FramesAfter(frames, pc, FetchOpcode(Machine).opcode, after)
    /\ delay_set' = IF SetsDelay(Machine)
                    THEN v_registers[Digit2(FetchOpcode(Machine).opcode)]
                    ELSE delay_set
    /\ ticks' = IF SetsDelay(Machine) THEN 0 ELSE ticks
    /\ UNCHANGED <<phase, rom, overflow_checks>>

\* Chip8::tick_timers
tick_timers ==
    /\ status = "running"
    /\ Apply(TickTimersFn(Machine))
    /\ returned' = Returned(TickTimersFn(Machine))
    /\ ticks' = IF delay_set >= 0 /\ ticks < U8 - 1 THEN ticks + 1 ELSE ticks
    /\ UNCHANGED <<opcode, frames, phase, rom, overflow_checks, delay_set>>

\* Chip8::set_pressed_keys
set_pressed_keys ==
    /\ status = "running"
    /\ \E keys \in KeySnapshots :
          Apply([Machine EXCEPT !.pressed_keys = keys])
    /\ returned' = "()"
    /\ UNCHANGED <<opcode, frames, phase, rom, overflow_checks, delay_set, ticks>>

Next == init \/ load_rom \/ cycle \/ tick_timers \/ set_pressed_keys

\* Chip8::new(), a program source holding one of `roms`, and a build profile
InitWith(roms) ==
    /\ rom \in roms
    /\ overflow_checks \in BuildProfiles
    /\ data = NewMachine.data
    /\ pc = NewMachine.pc
    /\ stack = NewMachine.stack
    /\ sp = NewMachine.sp
    /\ pixels = NewMachine.pixels
    /\ v_registers = NewMachine.v_registers
    /\ i_register = NewMachine.i_register
    /\ pressed_keys = NewMachine.pressed_keys
    /\ delay_timer = NewMachine.delay_timer
    /\ sound_timer = NewMachine.sound_timer
    /\ status = NewMachine.status
    /\ panic = NewMachine.panic
    /\ returned = "()"
    /\ opcode = -1
    /\ frames = <<>>
    /\ phase = "new"
    /\ delay_set = -1
    /\ ticks = 0

----------------------------------------------------------------------------
(* Programs                                                                *)

MaxRomLen == 2

RET == Op(0, 0, 14, 14)

\* instructions the generated programs are built from
OpPool ==
    { RET,                      \* 00EE
      Op(2, 2, 0, 0),           \* 2200  call the program start
      Op(1, 15, 15, 13),        \* 1FFD  jump to an odd address
      Op(3, 0, 0, 0),           \* 3000  skip (V0 = 0)
      Op(6, 0, 15, 15),         \* 60FF
      Op(11, 15, 15, 14),       \* BFFE  jump to 0xFFE + V0
      Op(10, 15, 15, 14),       \* AFFE
      Op(15, 1, 5, 5),          \* F155
      Op(0, 1, 2, 3) }          \* 0123  unimplemented

RECURSIVE SeqsUpTo(_, _)
SeqsUpTo(S, n) ==
    IF n = 0 THEN {<<>>}
    ELSE LET shorter == SeqsUpTo(S, n - 1)
         IN  shorter \cup {Append(q, e) : q \in {r \in shorter : Len(r) = n - 1}, e \in S}

\* a body of pool instructions, then two halts (the second catches a skip)
Halted(body) ==
    body \o <<Halt(START_ADDRESS + 2 * Len(body)),
              Halt(START_ADDRESS + 2 * Len(body) + 2)>>

PoolRoms == {Prog(Halted(body)) : body \in SeqsUpTo(OpPool, MaxRomLen) \ {<<>>}}

\* n nested calls, each to the next call, then n returns; ends in a halt
NestOps(n) ==
    [i \in 1..(2 * n + 1) |->
        LET j == i - 1
        IN  IF j = 2 * n THEN RET
            ELSE IF j % 2 = 0 THEN 8192 + START_ADDRESS + 2 * j + 4
            ELSE IF j = 1 THEN Halt(START_ADDRESS + 2)
            ELSE RET]

NestDepths == {1, 3, STACK_SIZE}

NestRoms == {Prog(NestOps(n)) : n \in NestDepths}

\* programs whose memory accesses run off the end of memory
EdgeRoms ==
    { Prog(<<Op(1, 15, 15, 14)>>),                      \* 1FFE: runs 0000 at 4094
      Prog(<<Op(1, 15, 15, 13)>>),                      \* 1FFD: fetch at 4095
      Prog(<<Op(6, 0, 15, 15), Op(11, 15, 15, 15)>>),   \* 60FF BFFF
      Prog(<<Op(10, 15, 15, 15), Op(13, 0, 0, 2)>>),    \* AFFF D002
      Prog(Halted(<<Op(10, 15, 15, 15), Op(13, 0, 0, 1)>>)), \* AFFF D001
      Prog(<<Op(10, 15, 15, 15), Op(6, 0, 0, 1), Op(15, 0, 1, 14),
             Op(13, 0, 0, 0), Op(6, 0, 15, 15), Op(15, 0, 1, 14),
             Op(13, 0, 0, 0)>>),                        \* I = 4096, D000; I = 4351, D000
      Prog(<<Op(6, 3, 15, 15), Op(10, 15, 15, 14), Op(15, 3, 3, 3)>>),  \* FFE: F333
      Prog(<<Op(6, 3, 15, 15), Op(10, 15, 15, 15), Op(15, 3, 3, 3)>>),  \* FFF: F333
      Prog(Halted(<<Op(6, 3, 15, 15), Op(10, 15, 15, 13), Op(15, 3, 3, 3)>>)),
      Prog(<<Op(6, 0, 0, 7), Op(6, 1, 0, 9), Op(10, 15, 15, 15),
             Op(15, 1, 5, 5)>>),                        \* AFFF F155
      Prog(Halted(<<Op(6, 0, 0, 7), Op(6, 1, 0, 9), Op(10, 15, 15, 14),
                    Op(15, 1, 5, 5), Op(6, 0, 0, 0), Op(15, 2, 6, 5)>>)) }

\* opcodes that match no arm of the match
UnknownOps ==
    { 0, Op(0, 0, 14, 1), Op(0, 0, 15, 14), Op(0, 1, 14, 0),
      Op(5, 0, 1, 1), Op(5, 0, 0, 15), Op(9, 0, 1, 1), Op(9, 1, 0, 14),
      Op(8, 0, 1, 8), Op(8, 0, 1, 13), Op(8, 0, 1, 15),
      Op(14, 0, 9, 15), Op(14, 0, 10, 0), Op(14, 0, 0, 0),
      Op(15, 0, 0, 0), Op(15, 15, 15, 15), Op(15, 0, 6, 6), Op(15, 0, 0, 8) }

UnknownRoms == {Prog(Halted(<<Op(6, 1, 0, 5), u>>)) : u \in UnknownOps}

\* byte i (from 1) of the largest programs
FillByte(i) == (i % 251) + 1

\* a program of n bytes: 1FFE first, and 4001 (a skip, V0 # 1) as its last
\* instruction when it ends at an even length
BigRom(n) ==
    [i \in 1..n |->
        IF i = 1 THEN 31 ELSE IF i = 2 THEN 254
        ELSE IF i = n - 1 /\ n % 2 = 0 THEN 64
        ELSE IF i = n /\ n % 2 = 0 THEN 1
        ELSE FillByte(i)]

RomCapacity == MEMORY_SIZE - START_ADDRESS

SizeRoms == {Prog(<<Halt(START_ADDRESS)>>), BigRom(RomCapacity), BigRom(RomCapacity + 1)}

\* programs that start the timers
TimerRoms ==
    { Prog(Halted(<<Op(6, 0, 0, 3), Op(15, 0, 1, 5), Op(6, 0, 0, 2),
                    Op(15, 0, 1, 8), Op(15, 4, 0, 7)>>)) }

Roms ==
    PoolRoms \cup NestRoms \cup EdgeRoms \cup UnknownRoms \cup SizeRoms
        \cup TimerRoms

Init == InitWith(Roms)

Spec == Init /\ [][Next]_vars

----------------------------------------------------------------------------
(* The arithmetic instructions on chosen register contents                 *)

\* the machine after init and load_rom of `bytes`, with the registers set
\* (as 6xkk instructions would set them) to `regs`
LoadedWith(bytes, regs) ==
    [MemoryLoadRom(MemoryInit(NewMachine), bytes) EXCEPT !.v_registers = regs]

InitFrom(starts) ==
    /\ overflow_checks \in BuildProfiles
    /\ \E s \in starts : \E m \in {LoadedWith(s.rom, s.regs)} :
              /\ rom = s.rom
              /\ data = m.data
              /\ pc = m.pc
              /\ stack = m.stack
              /\ sp = m.sp
              /\ pixels = m.pixels
              /\ v_registers = m.v_registers
              /\ i_register = m.i_register
              /\ pressed_keys = m.pressed_keys
              /\ delay_timer = m.delay_timer
              /\ sound_timer = m.sound_timer
              /\ status = m.status
              /\ panic = m.panic
    /\ returned = "()"
    /\ opcode = -1
    /\ frames = <<>>
    /\ phase = "loaded"
    /\ delay_set = -1
    /\ ticks = 0

\* register contents that tell the registers apart
BaseRegs == [r \in 0..(NUM_REGISTERS - 1) |-> 16 * r + 5]

AluVals == {0, 1, 128, 255}

\* Vy is Vx itself, the flag register, or the next register
AluYs(x) == {x, 15, (x + 1) % NUM_REGISTERS}

AluStart(x, y, k, a, b) ==
    [rom |-> Prog(Halted(<<Op(8, x, y, k)>>)),
     regs |-> [BaseRegs EXCEPT ![x] = a, ![y] = b]]

AluStarts ==
    UNION { {AluStart(x, y, k, a, b) :
                y \in AluYs(x), k \in {4, 5, 7}, a \in AluVals, b \in AluVals}
            \cup {AluStart(x, x, k, a, a) : k \in {6, 14}, a \in AluVals}
          : x \in 0..(NUM_REGISTERS - 1) }

InitAlu == InitFrom(AluStarts)

NextAlu == cycle

SpecAlu == InitAlu /\ [][NextAlu]_vars

----------------------------------------------------------------------------
(* Dxyn on chosen origins and sprites                                      *)

\* sprite rows with bits in all eight columns, stored after the program
SpriteRows == <<255, 129, 165, 255, 24, 255, 129, 165, 255, 24, 255, 129, 165,
                255, 24, 60>>

\* the draw program: the bytes of seven instructions and two halts
DrawProgLen == 18

\* where the draw program keeps its sprite
SpriteAt == START_ADDRESS + DrawProgLen

\* draw the sprite, draw the sprite that starts one row further down in
\* memory over it, draw that one again, then draw the first again
DrawOps(x, y, n) ==
    Halted(<<40960 + SpriteAt, Op(13, x, y, n),
             40960 + SpriteAt + 1, Op(13, x, y, n), Op(13, x, y, n),
             40960 + SpriteAt, Op(13, x, y, n)>>)

DrawStart(x, y, n, a, b) ==
    [rom |-> Prog(DrawOps(x, y, n)) \o SpriteRows,
     regs |-> [BaseRegs EXCEPT ![x] = a, ![y] = b]]

\* Vx: columns 0, 60, 63, and 60 and 63 again as 124 and 255
DrawXs == {0, 60, 63, 124, 255}

\* Vy: rows 0, 28, 31, and 29 again as 61
DrawYs == {0, 28, 31, 61}

DrawHeights == {0, 1, 5, 15}

\* the registers naming the origin: distinct, the flag register, the same
DrawRegs == {<<0, 1>>, <<15, 1>>, <<0, 15>>, <<2, 2>>}

DrawStarts ==
    {DrawStart(xy[1], xy[2], n, a, b) :
        xy \in DrawRegs, n \in DrawHeights, a \in DrawXs, b \in DrawYs}

InitDraw == InitFrom(DrawStarts)

NextDraw == cycle

SpecDraw == InitDraw /\ [][NextDraw]_vars

----------------------------------------------------------------------------
(* Programs that wait for a key, run the timers, draw random bytes, or run  *)
(* straight through, under the driver's calls in any order                 *)

\* Fx0A first; Fx0A on the flag register after the delay timer was started
KeyRoms ==
    { Prog(Halted(<<Op(15, 3, 0, 10), Op(6, 1, 0, 9)>>)),
      Prog(Halted(<<Op(6, 0, 0, 3), Op(15, 0, 1, 5), Op(15, 15, 0, 10)>>)) }

\* delay timer from 255; sound timer from 1; delay timer from 5, read back
TickRoms ==
    { Prog(Halted(<<Op(6, 0, 15, 15), Op(15, 0, 1, 5)>>)),
      Prog(Halted(<<Op(6, 0, 0, 1), Op(15, 0, 1, 8)>>)),
      Prog(Halted(<<Op(6, 0, 0, 5), Op(15, 0, 1, 5), Op(6, 2, 0, 7),
                    Op(15, 4, 0, 7), Op(15, 4, 0, 7)>>)) }

\* Cxkk under the masks FF, 0F and 00
RandRoms ==
    { Prog(Halted(<<Op(12, 0, 15, 15), Op(12, 1, 0, 15), Op(12, 2, 0, 0)>>)) }

\* programs without jump, call, return, skip or key-wait before their halt;
\* the last one stores V0 = 0x12 over its own fourth instruction
LineRoms ==
    { Prog(Halted(<<Op(6, 10, 0, 2), Op(6, 11, 0, 3), Op(8, 10, 11, 4)>>)),
      Prog(Halted(<<Op(6, 0, 10, 10)>>)),
      Prog(Halted(<<Op(0, 0, 14, 0), Op(7, 1, 0, 5), Op(10, 3, 0, 0), Op(15, 1, 1, 14),
                    Op(15, 1, 3, 3), Op(15, 1, 6, 5), Op(15, 1, 2, 9),
                    Op(13, 0, 0, 5), Op(0, 0, 0, 0), Op(8, 1, 0, 6)>>)),
      Prog(Halted(<<Op(6, 0, 1, 2), Op(10, 2, 0, 6), Op(15, 0, 5, 5),
                    Op(0, 0, 0, 0)>>)) }

RunRoms == KeyRoms \cup TickRoms \cup RandRoms \cup LineRoms

InitRun == InitWith(RunRoms)

SpecRun == InitRun /\ [][Next]_vars

----------------------------------------------------------------------------
(* init called at any point of a run                                       *)

\* Chip8::init whenever the driver chooses: the method has no precondition
init_anytime ==
    /\ status = "running"
    /\ Apply(MemoryInit(Machine))
    /\ returned' = Returned(MemoryInit(Machine))
    /\ phase' = IF phase = "new" THEN "inited" ELSE phase
    /\ UNCHANGED <<opcode, frames, rom, overflow_checks, delay_set, ticks>>

\* programs that store V0 over the glyphs (addresses 0 and 79) and just
\* past them (address 80)
InitRoms ==
    { Prog(Halted(<<Op(6, 0, 1, 1), Op(10, 0, 0, 0), Op(15, 0, 5, 5),
                    Op(10, 0, 4, 15), Op(15, 0, 5, 5),
                    Op(10, 0, 5, 0), Op(15, 0, 5, 5)>>)),
      Prog(Halted(<<Op(6, 1, 2, 2), Op(10, 0, 4, 14), Op(15, 1, 5, 5)>>)),
      Prog(Halted(<<Op(6, 0, 15, 15), Op(10, 0, 0, 5), Op(15, 0, 5, 5),
                    Op(6, 0, 0, 1), Op(10, 0, 4, 11), Op(15, 0, 5, 5)>>)) }

InitInit == InitWith(InitRoms)

NextInit == init_anytime \/ load_rom \/ cycle

SpecInit == InitInit /\ [][NextInit]_vars

----------------------------------------------------------------------------
(* Fx55 and Fx65 on chosen blocks                                          *)

\* the byte the block program loads into V0, Vx and VF between the two
Scratch == 153

\* point I at `at`, store V0..Vx, overwrite V0, Vx and VF, load V0..Vx
BlockOps(x, at) ==
    Halted(<<40960 + at, Op(15, x, 5, 5), Op(6, 0, 9, 9), Op(6, x, 9, 9),
             Op(6, 15, 9, 9), Op(15, x, 6, 5)>>)

BlockStart(x, at) ==
    [rom |-> Prog(BlockOps(x, at)), regs |-> BaseRegs]

\* I: over the glyphs, in free memory, and so that I + x is the last cell
BlockAts(x) == {0, 768, MEMORY_SIZE - 1 - x}

BlockStarts ==
    {BlockStart(x, at) : x \in 0..(NUM_REGISTERS - 1), at \in UNION {BlockAts(k) : k \in {0, 7, 15}}}

InitBlock == InitFrom(BlockStarts)

NextBlock == cycle

SpecBlock == InitBlock /\ [][NextBlock]_vars

----------------------------------------------------------------------------
(* Ex9E and ExA1 on chosen values of Vx                                    *)

\* Vx: keys that are up, keys that are down in a snapshot (3, 7), the last
\* key, and values that name no key
KeyTestVals == {0, 3, 7, 15, 16, 255}

KeyTestRoms ==
    {Prog(Halted(<<Op(6, 0, 0, 0) + v, t>>)) :
        v \in KeyTestVals, t \in {Op(14, 0, 9, 14), Op(14, 0, 10, 1)}}

InitKeyTest == InitWith(KeyTestRoms)

SpecKeyTest == InitKeyTest /\ [][Next]_vars

----------------------------------------------------------------------------
(* Claims                                                                  *)

PcMax == (MEMORY_SIZE - 1) + (U8 - 1)

JumpArms == {"00EE", "1nnn", "2nnn", "Bnnn"}

\* C1 as stated: once a program is loaded the program counter is even and
\* lies within [0, 4094] in every reachable state.
C1_PcEvenWithin4094 ==
    phase = "loaded" => pc % 2 = 0 /\ pc >= 0 /\ pc <= MEMORY_SIZE - 2

\* C1 amended: the program counter lies within [0, 4350] in every reachable
\* state, and a cycle that does not panic moves it by 0, 2 or 4 (keeping
\* its parity) unless it executes 00EE, 1nnn, 2nnn or Bnnn, the only
\* instructions that can make it odd.
C1_PcWithinReach ==
    /\ [](pc >= 0 /\ pc <= PcMax)
    /\ [][(cycle /\ status' = "running" /\ Decode(opcode') \notin JumpArms)
             => pc' - pc \in {0, 2, 4}]_vars

\* C1 witness: a running machine whose Bnnn jumped to 4095 + 255
C1_Witness ==
    /\ status = "running"
    /\ opcode >= 0 /\ Decode(opcode) = "Bnnn"
    /\ pc = PcMax

IndexFailure == status = "panicked" /\ panic = IndexOutOfBounds

Fetched(arm) == opcode >= 0 /\ Decode(opcode) = arm

\* C2: a cycle whose fetch (pc + 1 > 4095), sprite read (Dxyn, I + n past
\* the end), BCD store (Fx33, I + 2 > 4095) or block transfer (Fx55 / Fx65,
\* I + x > 4095) runs off the 4096-byte memory ends in the index failure,
\* and memory keeps exactly the cells 0..4095.
C2_OutOfRangeFails ==
    [][cycle =>
        /\ DOMAIN data' = 0..(MEMORY_SIZE - 1)
        /\ (pc + 1 > MEMORY_SIZE - 1) => IndexFailure'
        /\ (Fetched("Dxyn")' /\ i_register + Digit4(opcode') > MEMORY_SIZE)
              => IndexFailure'
        /\ (Fetched("Fx33")' /\ i_register + 2 > MEMORY_SIZE - 1)
              => IndexFailure'
        /\ ((Fetched("Fx55")' \/ Fetched("Fx65")')
                /\ i_register + Digit2(opcode') > MEMORY_SIZE - 1)
              => IndexFailure']_vars

\* C2 witness: Fx33 at I = 4094 stored two digits and failed on the third
C2_Witness ==
    /\ IndexFailure
    /\ Fetched("Fx33")
    /\ i_register = MEMORY_SIZE - 2
    /\ data[MEMORY_SIZE - 2] = 2 /\ data[MEMORY_SIZE - 1] = 5

\* C3 as stated: a CALL with 16 addresses stored fails, leaves the 16
\* addresses and the pointer as they were, and the stack pointer never
\* exceeds 16 in any reachable state.
C3_CallOverflowRejected ==
    /\ [](sp <= STACK_SIZE)
    /\ [][(cycle /\ sp = STACK_SIZE /\ Fetched("2nnn")')
             => (status' = "panicked" /\ stack' = stack /\ sp' = STACK_SIZE)]_vars

\* C4 as stated: a RETURN with the stack pointer at 0 fails, the pointer
\* stays 0 and the program counter is not loaded from the stack.
C4_ReturnUnderflowRejected ==
    [][(cycle /\ sp = 0 /\ Fetched("00EE")')
          => (status' = "panicked" /\ sp' = 0 /\ pc' = pc + 2)]_vars

\* C5: load_rom of n bytes succeeds iff n <= 3584; on success byte i is at
\* 512 + i, every other cell and the program counter are unchanged; on
\* failure memory is unchanged.
C5_LoadRomCapacity ==
    [][load_rom =>
        LET n == Len(rom)
        IN  /\ (status' = "running") <=> (n <= 3584)
            /\ (n <= 3584) =>
                  /\ \A a \in 0..4095 :
                        data'[a] = IF a >= 512 /\ a < 512 + n
                                   THEN rom[a - 512 + 1] ELSE data[a]
                  /\ pc' = pc
            /\ (n > 3584) => (data' = data /\ panic' = RomTooLarge)]_vars

\* C5 witness: the 3584-byte program is loaded and its last byte is at 4095
C5_Witness ==
    /\ phase = "loaded" /\ status = "running"
    /\ Len(rom) = 3584
    /\ data[4095] = 1 /\ data[0] = 240 /\ pc = 512

\* C6 as stated: a cycle that fetches an opcode no arm matches changes only
\* the program counter (by 2), does not fail, and hands UnknownOpcode back
\* to its caller.
C6_UnknownOpcodeReported ==
    [][(cycle /\ Fetched("unimplemented")') =>
          /\ status' = "running"
          /\ pc' = pc + 2
          /\ UNCHANGED <<data, stack, sp, pixels, v_registers, i_register,
                         pressed_keys, delay_timer, sound_timer>>
          /\ returned' = "UnknownOpcode"]_vars

\* C7: a CALL at p stores p + 2 and jumps; a RETURN loads the address of
\* the most recent CALL not yet returned from and drops it, so N nested
\* CALLs then N RETURNs visit pN + 2, ..., p1 + 2 and the stack pointer
\* is back at its value before the CALLs.
C7_CallReturnLifo ==
    [][(cycle /\ status' = "running") =>
          /\ Fetched("2nnn")' =>
                /\ pc' = Nnn(opcode')
                /\ sp' = sp + 1
                /\ frames' = Append(frames, pc + 2)
          /\ Fetched("00EE")' =>
                /\ Len(frames) >= 1
                /\ pc' = frames[Len(frames)]
                /\ sp' = sp - 1
                /\ sp' = Len(frames')]_vars

\* C7 witness: 16 nested CALLs were returned from, back to the first
C7_Witness ==
    /\ status = "running"
    /\ Fetched("00EE")
    /\ sp = 0 /\ pc = START_ADDRESS + 2
    /\ stack[STACK_SIZE - 1] = START_ADDRESS + 4 * (STACK_SIZE - 1) + 2

VF == 15

\* C8 as stated: after 8xy6 (8xyE) VF is bit 0 (bit 7) of the old Vx for
\* every x, x = F included, and for x # F Vx is the old Vx shifted.
C8_ShiftFlag ==
    [][cycle =>
        LET x == Digit2(opcode')
            v == v_registers[x]
        IN  /\ Fetched("8xy6")' =>
                  /\ v_registers'[VF] = v % 2
                  /\ (x # VF) => v_registers'[x] = v \div 2
            /\ Fetched("8xyE")' =>
                  /\ v_registers'[VF] = v \div 128
                  /\ (x # VF) => v_registers'[x] = (v * 2) % 256]_vars

\* C9: after 8xy5 VF = 1 iff Vx >= Vy, and Vx = (Vx - Vy) mod 256 when
\* x # F; after 8xy7 VF = 1 iff Vy >= Vx, and Vx = (Vy - Vx) mod 256 when
\* x # F; VF holds the flag also when x = F.
C9_SubFlag ==
    [][cycle =>
        LET x == Digit2(opcode')
            a == v_registers[x]
            b == v_registers[Digit3(opcode')]
        IN  /\ Fetched("8xy5")' =>
                  /\ v_registers'[VF] = (IF a >= b THEN 1 ELSE 0)
                  /\ (x # VF) => v_registers'[x] = (a - b) % 256
            /\ Fetched("8xy7")' =>
                  /\ v_registers'[VF] = (IF b >= a THEN 1 ELSE 0)
                  /\ (x # VF) => v_registers'[x] = (b - a) % 256]_vars

\* C9 witness: 8xy5 ran with Vx = Vy = 128 in two different registers
C9_Witness ==
    /\ Fetched("8xy5")
    /\ pc = START_ADDRESS + 2
    /\ Digit2(opcode) \notin {Digit3(opcode), VF}
    /\ v_registers[Digit3(opcode)] = 128
    /\ v_registers[Digit2(opcode)] = 0
    /\ v_registers[VF] = 1

\* C10: after 8xy4 VF = 1 iff Vx + Vy > 255, Vx = (Vx + Vy) mod 256 when
\* x # F, and no register other than Vx and VF changes.
C10_AddCarry ==
    [][(cycle /\ Fetched("8xy4")') =>
        LET x == Digit2(opcode')
            a == v_registers[x]
            b == v_registers[Digit3(opcode')]
        IN  /\ v_registers'[VF] = (IF a + b > 255 THEN 1 ELSE 0)
            /\ (x # VF) => v_registers'[x] = (a + b) % 256
            /\ \A r \in 0..15 : r \notin {x, VF} => v_registers'[r] = v_registers[r]]_vars

\* C10 witness: 8xy4 ran with Vx = 255 and Vy = 1 and carried
C10_Witness ==
    /\ Fetched("8xy4")
    /\ pc = START_ADDRESS + 2
    /\ Digit2(opcode) \notin {Digit3(opcode), VF}
    /\ v_registers[Digit3(opcode)] = 1
    /\ v_registers[Digit2(opcode)] = 0
    /\ v_registers[VF] = 1

\* the display cells under a 1 bit of the n-row sprite at `at` drawn at the
\* origin (vx mod 64, vy mod 32): a bit past column 63 or row 31 is dropped
SpriteCells(at, vx, vy, n) ==
    LET ox == vx % SCREEN_WIDTH
        oy == vy % SCREEN_HEIGHT
    IN  {(oy + rc[1]) * SCREEN_WIDTH + (ox + rc[2]) :
            rc \in {q \in (0..(n - 1)) \X (0..7) :
                      /\ ox + q[2] <= 63
                      /\ oy + q[1] <= 31
                      /\ (data[at + q[1]] \div (2 ^ (7 - q[2]))) % 2 = 1}}

\* C11: a Dxyn that does not fail toggles exactly the display cells
\* (ox + c, oy + r), r < n, c < 8, that lie on the display (column <= 63,
\* row <= 31, no wrap of a pixel) under a 1 bit of memory[I + r], with
\* ox = Vx mod 64 and oy = Vy mod 32; every other cell is unchanged; VF is 1
\* iff a toggled cell was set before, else 0; with n = 0 the display is
\* unchanged and VF = 0.
C11_DrawXorClipped ==
    [][(cycle /\ Fetched("Dxyn")' /\ status' = "running") =>
        LET n == Digit4(opcode')
            cells == SpriteCells(i_register, v_registers[Digit2(opcode')],
                                 v_registers[Digit3(opcode')], n)
        IN  /\ {p \in 0..(SCREEN_WIDTH * SCREEN_HEIGHT - 1) : pixels'[p] # pixels[p]}
                  = cells
            /\ v_registers'[VF] = (IF \E p \in cells : pixels[p] THEN 1 ELSE 0)
            /\ (n = 0) => (pixels' = pixels /\ v_registers'[VF] = 0)]_vars

\* C11 witness: the first draw of 15 rows at Vx = 124, Vy = 61 (origin
\* 60, 29) set columns 60..63 of row 29 and nothing of rows 0 or 30's
\* first columns: the pixels past column 63 and row 31 were dropped
C11_Witness ==
    /\ Fetched("Dxyn") /\ Digit4(opcode) = 15
    /\ status = "running"
    /\ pc = START_ADDRESS + 4
    /\ v_registers[0] = 124 /\ v_registers[1] = 61 /\ v_registers[VF] = 0
    /\ \A c \in 60..63 : pixels[29 * SCREEN_WIDTH + c]
    /\ pixels[30 * SCREEN_WIDTH + 60] /\ ~pixels[30 * SCREEN_WIDTH + 61]
    /\ \A c \in 0..59 : ~pixels[29 * SCREEN_WIDTH + c]
    /\ \A p \in 0..(29 * SCREEN_WIDTH - 1) : ~pixels[p]
    /\ ~pixels[30 * SCREEN_WIDTH] /\ ~pixels[31 * SCREEN_WIDTH + 7]

Lit == {p \in 0..(SCREEN_WIDTH * SCREEN_HEIGHT - 1) : pixels[p]}

\* C12: a Dxyn with x, y # F that does not fail, executed again on the
\* state it left (same I, same sprite bytes), restores the display to its
\* contents before the first of the two; on a cleared display the first
\* leaves VF = 0 and, when it set at least one pixel, the second leaves
\* VF = 1.
C12_DrawInvolution ==
    [][(cycle /\ Fetched("Dxyn")' /\ status' = "running"
              /\ Digit2(opcode') # VF /\ Digit3(opcode') # VF) =>
        LET again == Execute(Machine', opcode', 0)
        IN  /\ again.pixels = pixels
            /\ (Lit = {}) =>
                  /\ v_registers'[VF] = 0
                  /\ (Lit' # {}) => again.v_registers[VF] = 1]_vars

\* C12 witness: over the 5-row sprite drawn at (60, 28) the sprite one row
\* further down was drawn twice in succession: the display again holds
\* exactly the first sprite, clipped, and the second of the two collided
C12_Witness ==
    /\ Fetched("Dxyn") /\ Digit4(opcode) = 5
    /\ status = "running"
    /\ pc = START_ADDRESS + 10
    /\ i_register = SpriteAt + 1
    /\ v_registers[0] = 60 /\ v_registers[1] = 28 /\ v_registers[VF] = 1
    /\ Lit = SpriteCells(SpriteAt, 60, 28, 5)
    /\ Cardinality(Lit) = 11

NoKey == \A k \in 0..(NUM_KEYS - 1) : ~pressed_keys[k]

\* C13: a cycle that fetches Fx0A while no key of the snapshot is down
\* leaves the program counter where it was before the fetch and changes
\* neither registers, I, memory, stack, display, timers nor the snapshot.
C13_KeyWaitNoOp ==
    [][(cycle /\ Fetched("Fx0A")' /\ NoKey) =>
          /\ pc' = pc
          /\ status' = "running"
          /\ UNCHANGED <<data, stack, sp, pixels, v_registers, i_register,
                         pressed_keys, delay_timer, sound_timer>>]_vars

\* C13 witness: Fx0A on VF was fetched at 516 with no key down and the
\* program counter is at 516 again
C13_Witness ==
    /\ Fetched("Fx0A") /\ Digit2(opcode) = VF
    /\ NoKey
    /\ status = "running"
    /\ pc = START_ADDRESS + 4
    /\ data[pc] * 256 + data[pc + 1] = opcode
    /\ v_registers[VF] = 0

\* the program counter points at an Fx0A instruction
AtKeyWait ==
    /\ status = "running" /\ phase = "loaded"
    /\ pc + 1 < MEMORY_SIZE
    /\ Decode(data[pc] * 256 + data[pc + 1]) = "Fx0A"

\* C14: while the program counter points at an Fx0A, a cycle with no key
\* down fetches that instruction and leaves the program counter on it, and
\* tick_timers and set_pressed_keys leave it there too; a cycle with a key
\* down stores the lowest pressed index in Vx and leaves the program
\* counter 2 past the Fx0A.
C14_KeyWaitRetry ==
    [][AtKeyWait =>
          /\ (cycle /\ NoKey) =>
                /\ opcode' = data[pc] * 256 + data[pc + 1]
                /\ pc' = pc /\ AtKeyWait' /\ NoKey'
          /\ (tick_timers \/ set_pressed_keys) =>
                /\ pc' = pc /\ AtKeyWait'
          /\ (cycle /\ ~NoKey) =>
                /\ status' = "running"
                /\ pc' = pc + 2
                /\ pressed_keys[v_registers'[Digit2(opcode')]]
                /\ \A k \in 0..(NUM_KEYS - 1) :
                      pressed_keys[k] => v_registers'[Digit2(opcode')] <= k]_vars

\* C14 witness: with keys 3 and 7 down the Fx0A at 512 stored 3 in V3 and
\* the program counter is at 514
C14_Witness ==
    /\ Fetched("Fx0A") /\ Digit2(opcode) = 3
    /\ status = "running"
    /\ pc = START_ADDRESS + 2
    /\ pressed_keys[3] /\ pressed_keys[7]
    /\ v_registers[3] = 3

\* C15: tick_timers takes 1 off the delay timer if it is > 0 and leaves it 0
\* otherwise, the same for the sound timer, independently; neither timer
\* wraps to 255; program counter, registers, I, memory, stack, display and
\* key snapshot are unchanged.
C15_TickTimers ==
    [][tick_timers =>
          /\ delay_timer' = (IF delay_timer > 0 THEN delay_timer - 1 ELSE 0)
          /\ sound_timer' = (IF sound_timer > 0 THEN sound_timer - 1 ELSE 0)
          /\ delay_timer' <= delay_timer /\ sound_timer' <= sound_timer
          /\ status' = "running"
          /\ UNCHANGED <<pc, v_registers, i_register, data, stack, sp, pixels,
                         pressed_keys>>]_vars

\* C15 witness: the delay timer set to 5 was ticked 7 times, twice of them
\* at 0, and is 0, while the sound timer was 0 all along
C15_Witness ==
    /\ delay_set = 5 /\ ticks = 7
    /\ delay_timer = 0 /\ sound_timer = 0
    /\ status = "running"

\* C16 as stated: tick_timers hands a tone-complete signal to its caller
\* exactly on the tick that finds the sound timer at 1.
C16_ToneCompleteSignalled ==
    [][tick_timers => ((returned' = "tone-complete") <=> (sound_timer = 1))]_vars

\* C17 as stated: the state after a cycle is a function of the state before
\* it (two machines in equal states are in equal states after the same
\* call), Cxkk included; and after Cxkk Vx has no bit set outside kk.
C17_Deterministic ==
    [][cycle =>
          /\ \A r1, r2 \in RandomFor(Machine) :
                CycleFn(Machine, r1) = CycleFn(Machine, r2)
          /\ Fetched("Cxkk")' =>
                BitAnd(v_registers'[Digit2(opcode')], 255 - LowByte(opcode'), 8) = 0]_vars

\* the arms that alter control flow: jump, call, return, skip, key-wait
ControlArms ==
    {"00EE", "1nnn", "2nnn", "Bnnn", "3xkk", "4xkk", "5xy0", "9xy0", "Ex9E",
     "ExA1", "Fx0A"}

\* instruction i (from 0) of the program supplied
RomOp(i) == rom[2 * i + 1] * 256 + rom[2 * i + 2]

\* k: the number of leading instructions of the program that do not alter
\* control flow (P is these k instructions)
StraightLen ==
    CHOOSE k \in 0..(Len(rom) \div 2) :
        /\ \A i \in 0..(k - 1) : Decode(RomOp(i)) \notin ControlArms
        /\ k = Len(rom) \div 2 \/ Decode(RomOp(k)) \in ControlArms

\* the program counter is on instruction i < k of P
InStraight ==
    /\ phase = "loaded" /\ status = "running"
    /\ pc >= START_ADDRESS /\ (pc - START_ADDRESS) % 2 = 0
    /\ (pc - START_ADDRESS) \div 2 < StraightLen

\* memory still holds the bytes of P that load_rom copied
ProgramIntact ==
    \A j \in 1..(2 * StraightLen) : data[START_ADDRESS + j - 1] = rom[j]

\* the cycle decodes P's instruction at the program counter, read high
\* byte first, and leaves the program counter on the next one
RunsInOrder ==
    /\ opcode' = RomOp((pc - START_ADDRESS) \div 2)
    /\ opcode' = data[pc] * 256 + data[pc + 1]
    /\ pc' = pc + 2

\* 6xkk leaves Vx = kk and every other register unchanged
LoadsVx ==
    /\ v_registers'[Digit2(opcode')] = LowByte(opcode')
    /\ \A r \in 0..(NUM_REGISTERS - 1) :
          r # Digit2(opcode') => v_registers'[r] = v_registers[r]

AddRom == Prog(Halted(<<Op(6, 10, 0, 2), Op(6, 11, 0, 3), Op(8, 10, 11, 4)>>))

\* past [6A 02, 6B 03, 8A B4]: VA = 5 and VF = 0
AddRomResult ==
    (rom = AddRom /\ phase = "loaded" /\ pc = START_ADDRESS + 6)
        => (v_registers[10] = 5 /\ v_registers[VF] = 0)

\* C18 as stated: after init and load_rom(P), P being k instructions none
\* of which is a jump, call, return, skip or key-wait, the cycles execute
\* P's instructions in ROM order, the i-th decoding memory[512 + 2i] * 256
\* + memory[512 + 2i + 1], and leave the program counter at 512 + 2k; 6xkk
\* leaves Vx = kk and the other registers unchanged; [6A 02, 6B 03, 8A B4]
\* leaves VA = 5 and VF = 0.
C18_StraightLine ==
    /\ []AddRomResult
    /\ [][cycle =>
            /\ InStraight => RunsInOrder
            /\ Fetched("6xkk")' => LoadsVx]_vars

\* C18 amended: the same, for the cycles that find the bytes of P in
\* memory as load_rom copied them (no instruction of P has stored over P).
C18_IntactStraightLine ==
    /\ []AddRomResult
    /\ [][cycle =>
            /\ (InStraight /\ ProgramIntact) => RunsInOrder
            /\ Fetched("6xkk")' => LoadsVx]_vars

\* C18 witness: the third cycle of [6A 02, 6B 03, 8A B4] decoded 8AB4
C18_Witness ==
    /\ rom = AddRom
    /\ opcode = Op(8, 10, 11, 4)
    /\ pc = START_ADDRESS + 6
    /\ v_registers[10] = 5 /\ v_registers[11] = 3 /\ v_registers[VF] = 0

\* C19: init, in any state, leaves the glyph set at 0..79, the glyph of
\* digit d at d * 5 (memory[0] = 0xF0), and the program counter at 512,
\* changes no memory at or above 80, and a second init right after it
\* changes nothing.
C19_InitIdempotent ==
    [][init_anytime =>
          /\ \A d \in 0..15 : \A j \in 0..4 :
                data'[d * 5 + j] = FONTSET[d * 5 + j + 1]
          /\ data'[0] = 240
          /\ pc' = 512
          /\ \A a \in 80..4095 : data'[a] = data[a]
          /\ MemoryInit(Machine') = Machine']_vars

\* C19 witness: the program stored 0x11 at 0, 79 and 80 (its last store, at
\* I = 80, left the program counter at 526) and init was called after it:
\* the glyph bytes are back, the byte at 80 is kept, the counter is at 512
C19_Witness ==
    /\ phase = "loaded" /\ status = "running"
    /\ opcode = Op(15, 0, 5, 5) /\ i_register = 80
    /\ pc = START_ADDRESS
    /\ data[0] = 240 /\ data[79] = 128 /\ data[80] = 17
    /\ data[START_ADDRESS] = 96

\* max(v - k, 0) for the value v of the last Fx15 and the k ticks since
DelayDue == IF delay_set - ticks > 0 THEN delay_set - ticks ELSE 0

\* C20: a cycle changes the delay timer only by Fx15 and the sound timer
\* only by Fx18; so once Fx15 has set the delay timer to v, after any
\* interleaving of cycles (none executing Fx15) with k tick_timers calls
\* the delay timer, and the value Fx07 reads into Vx, is max(v - k, 0).
C20_ClocksIndependent ==
    /\ [](delay_set >= 0 => delay_timer = DelayDue)
    /\ [][cycle =>
            /\ ~Fetched("Fx15")' => delay_timer' = delay_timer
            /\ ~Fetched("Fx18")' => sound_timer' = sound_timer
            /\ (Fetched("Fx07")' /\ delay_set >= 0)
                  => v_registers'[Digit2(opcode')] = DelayDue]_vars

\* C20 witness: Fx15 set the delay timer to 5; three cycles and two ticks
\* later, in some order, Fx07 read 3
C20_Witness ==
    /\ opcode = Op(15, 4, 0, 7)
    /\ pc = START_ADDRESS + 10
    /\ delay_set = 5 /\ ticks = 2
    /\ v_registers[4] = 3 /\ delay_timer = 3

\* register contents that replace all sixteen registers between a store
\* and the load that follows it
Clobbers ==
    { [r \in 0..(NUM_REGISTERS - 1) |-> 0],
      [r \in 0..(NUM_REGISTERS - 1) |-> 255 - r] }

\* C21: with I + x <= 4095, Fx55 writes V0..Vx to memory[I..I+x] and changes
\* no other cell, no register and not I; Fx65 loads V0..Vx from
\* memory[I..I+x] and changes neither V(x+1)..VF, I nor memory; so an Fx65
\* with the same x and I after the Fx55, whatever the registers have become
\* in between, restores V0..Vx to the stored values and leaves the rest.
C21_BlockRoundTrip ==
    [][cycle =>
        LET x == Digit2(opcode')
            block == i_register..(i_register + x)
        IN  /\ (Fetched("Fx55")' /\ i_register + x <= MEMORY_SIZE - 1) =>
                  /\ status' = "running"
                  /\ \A a \in block : data'[a] = v_registers[a - i_register]
                  /\ \A a \in 0..(MEMORY_SIZE - 1) :
                        a \notin block => data'[a] = data[a]
                  /\ v_registers' = v_registers
                  /\ i_register' = i_register
                  /\ \A w \in Clobbers :
                        LET back == Execute([Machine' EXCEPT !.v_registers = w],
                                            Op(15, x, 6, 5), 0)
                        IN  /\ back.status = "running"
                            /\ back.i_register = i_register
                            /\ back.v_registers =
                                  [r \in 0..(NUM_REGISTERS - 1) |->
                                      IF r <= x THEN v_registers[r] ELSE w[r]]
            /\ (Fetched("Fx65")' /\ i_register + x <= MEMORY_SIZE - 1) =>
                  /\ status' = "running"
                  /\ \A r \in 0..(NUM_REGISTERS - 1) :
                        v_registers'[r] =
                            IF r <= x THEN data[i_register + r] ELSE v_registers[r]
                  /\ i_register' = i_register
                  /\ data' = data]_vars

\* C21 witness: F755 stored V0..V7 at the last eight cells of memory; V0,
\* V7 and VF were then overwritten; F765 brought V0 and V7 back and left VF
C21_Witness ==
    /\ opcode = Op(15, 7, 6, 5)
    /\ status = "running"
    /\ pc = START_ADDRESS + 12
    /\ i_register = MEMORY_SIZE - 8
    /\ \A r \in 0..7 : v_registers[r] = BaseRegs[r] /\ data[i_register + r] = BaseRegs[r]
    /\ \A r \in 8..14 : v_registers[r] = BaseRegs[r]
    /\ v_registers[VF] = Scratch
    /\ data[MEMORY_SIZE - 9] = 0

\* C22 as stated: a cycle that fetches Ex9E or ExA1 does not fail for any
\* Vx in 0..255, leaves the program counter 2 or 4 past the instruction and
\* changes nothing else; and on the same Vx and snapshot exactly one of
\* Ex9E and ExA1 skips.
C22_KeyTestTotal ==
    [][(cycle /\ (Fetched("Ex9E")' \/ Fetched("ExA1")')) =>
        LET x == Digit2(opcode')
            fetched == FetchOpcode(Machine).m
            pressed == Execute(fetched, Op(14, x, 9, 14), 0)
            released == Execute(fetched, Op(14, x, 10, 1), 0)
        IN  /\ status' = "running"
            /\ pc' - pc \in {2, 4}
            /\ UNCHANGED <<data, stack, sp, pixels, v_registers, i_register,
                           pressed_keys, delay_timer, sound_timer>>
            /\ (pressed.pc = pc + 4) # (released.pc = pc + 4)]_vars

====
